---- MODULE Spec2Model ----
(***************************************************************************)
(* Telegraf configuration synthesis of devopsext/discovery: the input      *)
(* builders (telegraf/common.go), the persistence gate and the sink        *)
(* dispatcher (sink/telegraf.go), over the helpers of common/utils.go.     *)
(*                                                                         *)
(* A Go string and a []byte are sequences of byte values (naturals); a Go  *)
(* map is a TLA+ function; the order in which a Go map is ranged over is   *)
(* an input chosen by the run time, so it is a nondeterministic choice.    *)
(***************************************************************************)
EXTENDS Naturals, Integers, Sequences, FiniteSets, TLC

VARIABLES
    targets,    \* builder runs: the target map (key -> Labels) handed to the builders
    optTags,    \* builder runs: the options' Tags list
    run,        \* builder runs: slot -> what the run in that slot produced
    fs,         \* the filesystem: path -> content of the file, or Absent
    gate,       \* the last call of the persistence gate: its arguments and what it did
    options,    \* the sink's options (t.options)
    last,       \* the last Process call: its arguments and what it did to each target
    configured, \* the options the sink was constructed with
    calls,      \* concurrent runs: worker -> the Process call it is in and its locals
    writer      \* concurrent runs: path -> the worker whose write to it came last

buildVars == <<targets, optTags, run>>
sinkVars == <<options, last>>
concVars == <<configured, calls, writer>>
vars == <<targets, optTags, run, fs, gate, options, last, configured, calls, writer>>

----------------------------------------------------------------------------
(* Bounds of the model *)

\* the most target keys a discovery result set holds
MaxTargets == 2

\* the longest generated byte sequence handed to the gate directly
MaxBytesLen == 1

\* the most records a list of a rendered container holds
MaxRecords == 2

\* the most builder calls made on one container
MaxCalls == 3

\* the most services a Signal result set holds
MaxServices == 2

----------------------------------------------------------------------------
(* Strings and bytes *)

\* "\n", the separator of bytes.Join in the persistence gate
NL == 10

Min(a, b) == IF a < b THEN a ELSE b

\* Go's s < t on strings: byte-wise lexicographic order
StrLess(s, t) ==
    \E i \in 1..(Min(Len(s), Len(t)) + 1) :
        /\ \A j \in 1..(i - 1) : s[j] = t[j]
        /\ \/ i > Len(s) /\ i <= Len(t)
           \/ i <= Len(s) /\ i <= Len(t) /\ s[i] < t[i]

RECURSIVE InsertSorted(_, _)
InsertSorted(sorted, x) ==
    IF sorted = <<>> THEN <<x>>
    ELSE IF StrLess(x, Head(sorted)) THEN <<x>> \o sorted
    ELSE <<Head(sorted)>> \o InsertSorted(Tail(sorted), x)

RECURSIVE SortFrom(_, _)
SortFrom(acc, rest) ==
    IF rest = <<>> THEN acc ELSE SortFrom(InsertSorted(acc, Head(rest)), Tail(rest))

\* a plausible slip: the keys are used in the order the map yielded them
SortStringsNoSort(a) == a

\* sort.Strings(a): a in ascending byte-wise order
SortStrings(a) == SortFrom(<<>>, a)

\* utils.Contains(arr, s)
Contains(arr, s) == \E i \in 1..Len(arr) : arr[i] = s

RECURSIVE AppendNew(_, _)
\* for each element of tags in order: append it unless already present
AppendNew(list, tags) ==
    IF tags = <<>> THEN list
    ELSE AppendNew(IF Contains(list, Head(tags)) THEN list ELSE Append(list, Head(tags)),
                   Tail(tags))

\* the orders in which ranging over a map with key set S can yield its keys
Orders(S) ==
    {o \in [1..Cardinality(S) -> S] : \A i, j \in 1..Cardinality(S) : o[i] = o[j] => i = j}

\* GetLabelsKeys(arr): the keys of arr, in map iteration order (any order)
GetLabelsKeys(arr) == Orders(DOMAIN arr)

RECURSIVE SeqOfSet(_)
\* the elements of a finite set, one after the other
SeqOfSet(S) == IF S = {} THEN <<>> ELSE LET x == CHOOSE y \in S : TRUE IN <<x>> \o SeqOfSet(S \ {x})

\* the keys of a map in ascending order (how the TOML encoder walks a map)
SortedKeys(m) == SortStrings(SeqOfSet(DOMAIN m))

IsSorted(a) == \A i \in 1..(Len(a) - 1) : StrLess(a[i], a[i + 1])

RECURSIVE Flatten(_)
Flatten(ss) == IF ss = <<>> THEN <<>> ELSE Head(ss) \o Flatten(Tail(ss))

----------------------------------------------------------------------------
(* Values the model draws its inputs from *)

kB == <<66>>
ka == <<97>>
kab == <<97, 98>>
kb == <<98>>
Keys == {kB, ka, kab, kb}

env == <<101>>
zone == <<122>>
dev == <<100>>
prod == <<112>>

EmptyLabels == [k \in {} |-> <<>>]
LabelMaps == {EmptyLabels, [k \in {env} |-> dev], [k \in {env} |-> prod]}

TargetMaps ==
    UNION {[S -> LabelMaps] : S \in {T \in SUBSET Keys : Cardinality(T) <= MaxTargets}}

TagLists == {<<>>, <<zone, env, zone>>}

\* the two independent builder runs that are compared, and a slot before its run
Slots == {1, 2}
NoRun == [done |-> FALSE]

\* before the first call of the gate
NoCall == [called |-> FALSE]

\* before the first Process call; a sink that is not part of the run
NoProcess == [dname |-> ""]
Workers == {1, 2}
NoCalls == [w \in Workers |-> [pc |-> "idle"]]
NoOptions == [Checksum |-> FALSE]

----------------------------------------------------------------------------
(* The serialization container and its rendering *)

\* &telegraf.Config{}: every record list empty
NewConfig ==
    [PrometheusHttp |-> <<>>, DNSQuery |-> <<>>, HTTPResponse |-> <<>>,
     NetResponse |-> <<>>, X509Cert |-> <<>>]

EncString(s) == <<34>> \o s \o <<34>>

RECURSIVE EncItems(_)
EncItems(list) ==
    IF list = <<>> THEN <<>>
    ELSE IF Len(list) = 1 THEN EncString(Head(list))
    ELSE EncString(Head(list)) \o <<44>> \o EncItems(Tail(list))

\* key = ["a", "b"]
EncList(name, list) == name \o <<61, 91>> \o EncItems(list) \o <<93, NL>>

\* key = "a"
EncField(name, s) == name \o <<61>> \o EncString(s) \o <<NL>>

RECURSIVE EncPairs(_, _)
EncPairs(m, keys) ==
    IF keys = <<>> THEN <<>>
    ELSE EncField(Head(keys), m[Head(keys)]) \o EncPairs(m, Tail(keys))

\* a map-valued field: a sub-table with its keys in ascending order, omitted when empty
EncTags(section, m) ==
    IF DOMAIN m = {} THEN <<>>
    ELSE <<91>> \o section \o <<46, 116, 93, NL>> \o EncPairs(m, SortedKeys(m))

\* one element of an array of tables: [[inputs.<section>]] and the record's fields
EncRecord(section, r) ==
    <<91, 91>> \o section \o <<93, 93, NL>>
    \o EncList(<<105>>, r.Ids)
    \o (IF r.Protocol = <<>> THEN <<>> ELSE EncField(<<112>>, r.Protocol))
    \o (IF r.Include = <<>> THEN <<>> ELSE EncList(<<116>>, r.Include))
    \o EncTags(section, r.Tags)

RECURSIVE EncRecordsReversed(_, _)
\* a plausible slip: the list is rendered from its last record to its first
EncRecordsReversed(section, list) ==
    IF list = <<>> THEN <<>>
    ELSE EncRecordsReversed(section, Tail(list)) \o EncRecord(section, Head(list))

RECURSIVE EncRecords(_, _)
EncRecords(section, list) ==
    IF list = <<>> THEN <<>>
    ELSE EncRecord(section, Head(list)) \o EncRecords(section, Tail(list))

\* a metric entry of a PrometheusHttp record
EncMetric(m) ==
    <<91, 91, 112, 104, 46, 109, 93, 93, NL>>
    \o EncField(<<110>>, m.Name) \o EncField(<<99>>, m.Class)
    \o EncTags(<<112, 104, 46, 109>>, m.Tags) \o EncTags(<<112, 104, 46, 118>>, m.Vars)

RECURSIVE EncMetrics(_)
EncMetrics(list) ==
    IF list = <<>> THEN <<>> ELSE EncMetric(Head(list)) \o EncMetrics(Tail(list))

RECURSIVE EncFiles(_)
EncFiles(list) ==
    IF list = <<>> THEN <<>>
    ELSE <<91, 91, 112, 104, 46, 102, 93, 93, NL>>
         \o EncField(<<110>>, Head(list).Name) \o EncField(<<112>>, Head(list).Path)
         \o EncFiles(Tail(list))

\* one PrometheusHttp record: its scalar fields, Include, then its file and metric tables
EncProm(r) ==
    <<91, 91, 112, 104, 93, 93, NL>>
    \o EncField(<<110>>, r.Name) \o EncField(<<117>>, r.URL)
    \o EncField(<<115>>, r.User) \o EncField(<<119>>, r.Password)
    \o (IF r.Include = <<>> THEN <<>> ELSE EncList(<<116>>, r.Include))
    \o EncTags(<<112, 104>>, r.Tags)
    \o EncFiles(r.File) \o EncMetrics(r.Metric)

RECURSIVE EncProms(_)
EncProms(list) ==
    IF list = <<>> THEN <<>> ELSE EncProm(Head(list)) \o EncProms(Tail(list))

\* toml.NewEncoder(w).Encode(tc): the [inputs] table, then the record lists in the
\* order of the struct's fields; omitempty drops a list that is empty
Encode(tc) ==
    <<91, 105, 93, NL>>
    \o EncProms(tc.PrometheusHttp)
    \o EncRecords(<<100, 113>>, tc.DNSQuery)
    \o EncRecords(<<104, 114>>, tc.HTTPResponse)
    \o EncRecords(<<110, 114>>, tc.NetResponse)
    \o EncRecords(<<120, 99>>, tc.X509Cert)

----------------------------------------------------------------------------
(* Input builders *)

\* input.updateIncludeTags(tags): add to Include, without duplicates, the given
\* tag names and the keys of the record's own Tags
updateIncludeTags(input, tags) ==
    [input EXCEPT !.Include = AppendNew(AppendNew(@, tags), SortedKeys(input.Tags))]

\* a record as the builders allocate it, before any field is assigned
NewInput == [Ids |-> <<>>, Protocol |-> <<>>, Include |-> <<>>, Tags |-> EmptyLabels]

\* a plausible slip: every record is given the whole key list as its targets
BuildRecordAllKeys(tags, m, k, protocol) ==
    [Ids |-> SortedKeys(m), Protocol |-> protocol,
     Include |-> SortStrings(AppendNew(<<>>, tags)), Tags |-> m[k]]

\* a plausible slip: the labels of the key are not assigned to the record
BuildRecordNoTags(tags, m, k, protocol) ==
    [Ids |-> <<k>>, Protocol |-> protocol,
     Include |-> SortStrings(AppendNew(<<>>, tags)), Tags |-> EmptyLabels]

\* the body of the builders' loop for key k: the target identifier, then
\* updateIncludeTags(opts.Tags), sort.Strings(input.Include), then Tags = m[k]
BuildRecord(tags, m, k, protocol) ==
    LET i1 == [NewInput EXCEPT !.Ids = <<k>>, !.Protocol = protocol]
        i2 == updateIncludeTags(i1, tags)
        i3 == [i2 EXCEPT !.Include = SortStrings(@)]
    IN  [i3 EXCEPT !.Tags = m[k]]

RECURSIVE BuildRecords(_, _, _, _)
BuildRecords(tags, m, keys, protocol) ==
    IF keys = <<>> THEN <<>>
    ELSE <<BuildRecord(tags, m, Head(keys), protocol)>>
         \o BuildRecords(tags, m, Tail(keys), protocol)

\* what a builder returns: the container after the call, the bytes, the error
Built(tc) == [tc |-> tc, bytes |-> Encode(tc), err |-> ""]

\* a plausible slip: the builder reports absence of targets as the metrics builder does
BuiltOrAbsent(tc) ==
    IF tc.DNSQuery = <<>> /\ tc.HTTPResponse = <<>> /\ tc.NetResponse = <<>> /\ tc.X509Cert = <<>>
    THEN [tc |-> tc, bytes |-> <<>>, err |-> "Metrics are not found."]
    ELSE Built(tc)

\* the end of the four target builders: encode tc, return b.Bytes(), nil
ReturnBytes(tc) == Built(tc)

\* a plausible slip: the records of the call are assigned to the list, not appended
GenerateInputDNSQueryBytesAssigns(tc, tags, domains, enum) ==
    ReturnBytes([tc EXCEPT !.DNSQuery = BuildRecords(tags, domains, SortStrings(enum), <<>>)])

\* enum is the order in which GetLabelsKeys yielded the keys of the map
GenerateInputDNSQueryBytes(tc, tags, domains, enum) ==
    ReturnBytes([tc EXCEPT !.DNSQuery =
        @ \o BuildRecords(tags, domains, SortStrings(enum), <<>>)])

GenerateInputHTTPResponseBytes(tc, tags, urls, enum) ==
    ReturnBytes([tc EXCEPT !.HTTPResponse =
        @ \o BuildRecords(tags, urls, SortStrings(enum), <<>>)])

GenerateInputNETResponseBytes(tc, tags, addresses, protocol, enum) ==
    ReturnBytes([tc EXCEPT !.NetResponse =
        @ \o BuildRecords(tags, addresses, SortStrings(enum), protocol)])

GenerateInputX509CertBytes(tc, tags, addresses, enum) ==
    ReturnBytes([tc EXCEPT !.X509Cert =
        @ \o BuildRecords(tags, addresses, SortStrings(enum), <<>>)])

tcp == <<116, 99, 112>>

----------------------------------------------------------------------------
(* Files and fingerprints *)

PathA == <<47, 97>>
PathB == <<47, 98>>
\* the empty path, the default of the *_TELEGRAF_CONF settings: it cannot be created
NoPath == <<>>
Paths == {PathA, PathB, NoPath}

\* no file at the path
Absent == <<-1>>
NoFiles == [p \in Paths |-> Absent]
\* no worker has written to any path
NoWriter == [p \in Paths |-> 0]

\* a nil []byte
Nil == <<>>

\* the MD5 digest, taken as collision-free: the length and a byte-wise bijection
MD5Sum(b) == <<Len(b)>> \o [i \in 1..Len(b) |-> (b[i] * 7 + 3) % 256]

\* ByteMD5(b)
ByteMD5(b) == MD5Sum(b)

\* a plausible slip: the file is never opened successfully
FileMD5Unreadable(f, path) == Nil

\* a plausible slip: only the first byte of the file reaches the digest
FileMD5FirstByte(f, path) ==
    IF f[path] = Absent THEN Nil ELSE MD5Sum(SubSeq(f[path], 1, Min(1, Len(f[path]))))

\* FileMD5(path): nil when the file cannot be opened, else the digest of its content
FileMD5(f, path) == IF f[path] = Absent THEN Nil ELSE MD5Sum(f[path])

\* the compare of FileWriteWithCheckSum: the file exists and its fingerprint is
\* that of data
SameCheckSum(f, path, data) == f[path] # Absent /\ FileMD5(f, path) = ByteMD5(data)

\* os.Create fails on the empty path
Unwritable(path) == path = NoPath

\* common.FileWriteWithCheckSum(path, data, checksum): in checksum mode an existing
\* file whose fingerprint equals that of data is left alone (exists = true);
\* otherwise the file is created or overwritten with data
FileWriteWithCheckSum(f, path, data, checksum) ==
    IF checksum /\ SameCheckSum(f, path, data)
    THEN [fs |-> f, exists |-> TRUE, err |-> FALSE, wrote |-> FALSE]
    ELSE IF Unwritable(path)
    THEN [fs |-> f, exists |-> FALSE, err |-> TRUE, wrote |-> FALSE]
    ELSE [fs |-> [f EXCEPT ![path] = data], exists |-> FALSE, err |-> FALSE, wrote |-> TRUE]

----------------------------------------------------------------------------
(* The persistence gate *)

\* utils.IsEmpty(s) on the strings of the model, none of which is blank
IsEmpty(s) == Len(s) = 0

\* a plausible slip: the template is appended without the separator
MergeTemplateNoSeparator(bs, template) ==
    IF ~IsEmpty(template) THEN bs \o template ELSE bs

\* bytes.Join([][]byte{bs, []byte(template)}, []byte("\n")) unless the template is empty
MergeTemplate(bs, template) ==
    IF ~IsEmpty(template) THEN bs \o <<NL>> \o template ELSE bs

\* what the gate did: the outcome it logged, the bytes it handed to
\* FileWriteWithCheckSum (Nil when it made no call), whether a file was written
GateResult(f, outcome, merged, called, wrote) ==
    [fs |-> f, outcome |-> outcome, merged |-> merged, called |-> called, wrote |-> wrote]

\* a plausible slip: the empty-bytes test is missing
GateNoEmptyTest(f, template, conf, checksum, bs) ==
    LET merged == MergeTemplate(bs, template)
        w == FileWriteWithCheckSum(f, conf, merged, checksum)
    IN  IF w.err THEN GateResult(w.fs, "cannot create", merged, TRUE, w.wrote)
        ELSE IF w.exists THEN GateResult(w.fs, "exists, skipped", merged, TRUE, w.wrote)
        ELSE GateResult(w.fs, "created or replaced", merged, TRUE, w.wrote)

\* a plausible slip: the checksum flag is not passed on, the compare is always made
GateAlwaysCompares(f, template, conf, checksum, bs) ==
    IF Len(bs) = 0 THEN GateResult(f, "no query config", Nil, FALSE, FALSE)
    ELSE GateNoEmptyTest(f, template, conf, TRUE, bs)

\* tc.CreateWithTemplateIfCheckSumIsDifferent(name, template, conf, checksum, bs, logger)
CreateWithTemplateIfCheckSumIsDifferent(f, template, conf, checksum, bs) ==
    IF bs = Nil \/ Len(bs) = 0
    THEN GateResult(f, "no query config", Nil, FALSE, FALSE)
    ELSE LET merged == MergeTemplate(bs, template)
             w == FileWriteWithCheckSum(f, conf, merged, checksum)
         IN  IF w.err THEN GateResult(w.fs, "cannot create", merged, TRUE, w.wrote)
             ELSE IF w.exists THEN GateResult(w.fs, "exists, skipped", merged, TRUE, w.wrote)
             ELSE GateResult(w.fs, "created or replaced", merged, TRUE, w.wrote)

\* tc.CreateIfCheckSumIsDifferent(name, conf, checksum, bs, logger)
CreateIfCheckSumIsDifferent(f, conf, checksum, bs) ==
    CreateWithTemplateIfCheckSumIsDifferent(f, <<>>, conf, checksum, bs)

----------------------------------------------------------------------------
(* Calls of the gate by any caller, with any bytes *)

Template1 == <<35, 49>>
Template2 == <<35, 50>>
Templates == {<<>>, Template1, Template2}

\* generated bytes: every sequence over {x, newline} up to MaxBytesLen
GateBytes == UNION {[1..n -> {120, NL}] : n \in 0..MaxBytesLen}

InitGate ==
    /\ targets = EmptyLabels
    /\ optTags = <<>>
    /\ run = [s \in Slots |-> NoRun]
    /\ fs = NoFiles
    /\ gate = NoCall
    /\ options = NoOptions
    /\ last = NoProcess
    /\ configured = options
    /\ calls = NoCalls
    /\ writer = NoWriter

CallGate ==
    \E template \in Templates, conf \in Paths, checksum \in BOOLEAN, bs \in GateBytes :
        LET r == CreateWithTemplateIfCheckSumIsDifferent(fs, template, conf, checksum, bs) IN
        /\ fs' = r.fs
        /\ gate' = [called |-> TRUE, template |-> template, conf |-> conf,
                    checksum |-> checksum, bs |-> bs, before |-> fs[conf],
                    outcome |-> r.outcome, merged |-> r.merged,
                    compared |-> r.called, wrote |-> r.wrote]
        /\ UNCHANGED <<concVars, targets, optTags, run, options, last>>

CallGateNoTemplate ==
    \E conf \in Paths, checksum \in BOOLEAN, bs \in GateBytes :
        LET r == CreateIfCheckSumIsDifferent(fs, conf, checksum, bs) IN
        /\ fs' = r.fs
        /\ gate' = [called |-> TRUE, template |-> <<>>, conf |-> conf,
                    checksum |-> checksum, bs |-> bs, before |-> fs[conf],
                    outcome |-> r.outcome, merged |-> r.merged,
                    compared |-> r.called, wrote |-> r.wrote]
        /\ UNCHANGED <<concVars, targets, optTags, run, options, last>>

NextGate == CallGate \/ CallGateNoTemplate

SpecGate == InitGate /\ [][NextGate]_vars

----------------------------------------------------------------------------
(* Builder runs: each builder called on a fresh Config with the same map *)

RunOf(kind, enum, res) ==
    [done |-> TRUE, kind |-> kind, presorted |-> IsSorted(enum),
     tc |-> res.tc, bytes |-> res.bytes, err |-> res.err]

InitBuild ==
    /\ targets \in TargetMaps
    /\ optTags \in TagLists
    /\ run = [s \in Slots |-> NoRun]
    /\ fs = NoFiles
    /\ gate = NoCall
    /\ options = NoOptions
    /\ last = NoProcess
    /\ configured = options
    /\ calls = NoCalls
    /\ writer = NoWriter

RunDNS ==
    \E s \in Slots, enum \in GetLabelsKeys(targets) :
        /\ run' = [run EXCEPT ![s] =
                RunOf("DNS", enum, GenerateInputDNSQueryBytes(NewConfig, optTags, targets, enum))]
        /\ UNCHANGED <<concVars, fs, gate, targets, optTags, options, last>>

RunHTTP ==
    \E s \in Slots, enum \in GetLabelsKeys(targets) :
        /\ run' = [run EXCEPT ![s] =
                RunOf("HTTP", enum, GenerateInputHTTPResponseBytes(NewConfig, optTags, targets, enum))]
        /\ UNCHANGED <<concVars, fs, gate, targets, optTags, options, last>>

RunTCP ==
    \E s \in Slots, enum \in GetLabelsKeys(targets) :
        /\ run' = [run EXCEPT ![s] =
                RunOf("TCP", enum, GenerateInputNETResponseBytes(NewConfig, optTags, targets, tcp, enum))]
        /\ UNCHANGED <<concVars, fs, gate, targets, optTags, options, last>>

RunCert ==
    \E s \in Slots, enum \in GetLabelsKeys(targets) :
        /\ run' = [run EXCEPT ![s] =
                RunOf("Cert", enum, GenerateInputX509CertBytes(NewConfig, optTags, targets, enum))]
        /\ UNCHANGED <<concVars, fs, gate, targets, optTags, options, last>>

NextBuild == RunDNS \/ RunHTTP \/ RunTCP \/ RunCert

SpecBuild == InitBuild /\ [][NextBuild]_vars

\* the record list a builder of the given kind appends to
ListOf(kind, tc) ==
    CASE kind = "DNS" -> tc.DNSQuery
      [] kind = "HTTP" -> tc.HTTPResponse
      [] kind = "TCP" -> tc.NetResponse
      [] kind = "Cert" -> tc.X509Cert

----------------------------------------------------------------------------
(* The metrics builder *)

\* MergeStringMaps(a, b): the entries of a, then those of b written over them
MergeStringMaps(a, b) ==
    [k \in DOMAIN a \cup DOMAIN b |-> IF k \in DOMAIN b THEN b[k] ELSE a[k]]

\* the keys of a map as ranging over it yields them: ascending or descending here
EnumKeys(m, desc) ==
    LET up == SortedKeys(m) IN
    IF desc THEN [i \in 1..Len(up) |-> up[Len(up) + 1 - i]] ELSE up

\* GetFileKeys(arr), GetBaseConfigKeys(arr): the keys in map iteration order
GetFileKeys(arr, desc) == EnumKeys(arr, desc)
GetBaseConfigKeys(arr, desc) == EnumKeys(arr, desc)

\* one metric entry of the given class per item, tagged with the BaseConfig's
\* labels, whose keys are added to the record's Include
BuildEntries(input, class, items, labels, vs) ==
    IF items = <<>> THEN input
    ELSE updateIncludeTags(
            [input EXCEPT !.Metric = @ \o
                [i \in 1..Len(items) |->
                    [Class |-> class, Name |-> items[i], Tags |-> labels, Vars |-> vs]]],
            SortedKeys(labels))

\* input.buildQualities, input.buildAvailability, input.buildMetrics
buildQualities(input, items, labels, vs) == BuildEntries(input, <<113>>, items, labels, vs)
buildAvailability(input, items, labels, vs) == BuildEntries(input, <<97>>, items, labels, vs)
buildMetrics(input, items, labels, vs) == BuildEntries(input, <<109>>, items, labels, vs)

RECURSIVE BuildConfigsMergedLabels(_, _, _)
\* a plausible slip: the labels are merged with the Object's, as the line left in
\* a comment does
BuildConfigsMergedLabels(input, s, keys) ==
    IF keys = <<>> THEN input
    ELSE LET c == s.Configs[Head(keys)]
             labels == MergeStringMaps(c.Labels, s.Labels)
             vs == MergeStringMaps(c.Vars, s.Vars)
             i1 == buildQualities(input, c.Qualities, labels, vs)
             i2 == buildAvailability(i1, c.Availability, labels, vs)
             i3 == buildMetrics(i2, c.Metrics, labels, vs)
         IN  BuildConfigsMergedLabels(i3, s, Tail(keys))

RECURSIVE BuildConfigs(_, _, _)
\* the loop over the sorted BaseConfig names
BuildConfigs(input, s, keys) ==
    IF keys = <<>> THEN input
    ELSE LET c == s.Configs[Head(keys)]
             labels == c.Labels
             vs == MergeStringMaps(c.Vars, s.Vars)
             i1 == buildQualities(input, c.Qualities, labels, vs)
             i2 == buildAvailability(i1, c.Availability, labels, vs)
             i3 == buildMetrics(i2, c.Metrics, labels, vs)
         IN  BuildConfigs(i3, s, Tail(keys))

\* a plausible slip: the record is appended before the metrics are counted
GenerateInputPrometheusHttpBytesAppendsFirst(tc, s, opts, name, fenum, kenum) ==
    LET input0 == [Name |-> name, URL |-> opts.URL, User |-> opts.User,
                   Password |-> opts.Password, Tags |-> EmptyLabels,
                   File |-> <<>>, Metric |-> <<>>, Include |-> <<>>]
        fkeys == SortStrings(fenum)
        input1 == [input0 EXCEPT !.File =
                     [i \in 1..Len(fkeys) |->
                        [Name |-> fkeys[i], Path |-> s.Files[fkeys[i]].Path]]]
        input2 == BuildConfigs(input1, s, SortStrings(kenum))
        input3 == updateIncludeTags(input2, opts.DefaultTags)
        input4 == [input3 EXCEPT !.Include = SortStrings(@)]
        tc1 == [tc EXCEPT !.PrometheusHttp = Append(@, input4)]
    IN  IF Len(input2.Metric) = 0
        THEN [tc |-> tc1, bytes |-> Nil, err |-> "Metrics are not found."]
        ELSE Built(tc1)

\* tc.GenerateInputPrometheusHttpBytes(s, labelsTpl, opts, name): fenum and kenum are
\* the orders in which the keys of s.Files and s.Configs were yielded
GenerateInputPrometheusHttpBytes(tc, s, opts, name, fenum, kenum) ==
    LET input0 == [Name |-> name, URL |-> opts.URL, User |-> opts.User,
                   Password |-> opts.Password, Tags |-> EmptyLabels,
                   File |-> <<>>, Metric |-> <<>>, Include |-> <<>>]
        fkeys == SortStrings(fenum)
        input1 == [input0 EXCEPT !.File =
                     [i \in 1..Len(fkeys) |->
                        [Name |-> fkeys[i], Path |-> s.Files[fkeys[i]].Path]]]
        input2 == BuildConfigs(input1, s, SortStrings(kenum))
    IN  IF Len(input2.Metric) = 0
        THEN [tc |-> tc, bytes |-> Nil, err |-> "Metrics are not found."]
        ELSE LET input3 == updateIncludeTags(input2, opts.DefaultTags)
                 input4 == [input3 EXCEPT !.Include = SortStrings(@)]
             IN  Built([tc EXCEPT !.PrometheusHttp = Append(@, input4)])

----------------------------------------------------------------------------
(* Discovery results and sink options of the dispatcher runs *)

vname == <<110>>
cfg1 == <<99, 49>>
cfg2 == <<99, 50>>
file1 == <<102, 49>>
metric1 == <<109, 49>>
quality1 == <<113, 49>>

NoFilesOf == [k \in {} |-> [Path |-> <<>>]]
NoConfigs == [k \in {} |-> <<>>]

BaseConfigOf(labels, vs, qualities, metrics) ==
    [Labels |-> labels, Vars |-> vs, Qualities |-> qualities,
     Availability |-> <<>>, Metrics |-> metrics]

\* a service with one BaseConfig that yields a metric; its file goes to PathA
ObjectA ==
    [Vars |-> [k \in {vname} |-> PathA], Files |-> NoFilesOf,
     Configs |-> [k \in {cfg1} |->
                    BaseConfigOf([l \in {env} |-> dev], EmptyLabels, <<>>, <<metric1>>)]]

\* a service with a file and two BaseConfigs; its file goes to PathB
ObjectB ==
    [Vars |-> [k \in {vname} |-> PathB],
     Files |-> [k \in {file1} |-> [Path |-> <<47, 102>>]],
     Configs |-> [k \in {cfg1, cfg2} |->
                    IF k = cfg1
                    THEN BaseConfigOf([l \in {zone} |-> prod], [v \in {vname} |-> <<120>>],
                                      <<quality1>>, <<>>)
                    ELSE BaseConfigOf(EmptyLabels, EmptyLabels, <<>>, <<metric1>>)]]

\* a service with no BaseConfig at all
ObjectNoConfigs ==
    [Vars |-> [k \in {vname} |-> PathA], Files |-> NoFilesOf, Configs |-> NoConfigs]

\* a service with a file and a BaseConfig that lists nothing
ObjectNoMetrics ==
    [Vars |-> [k \in {vname} |-> PathB],
     Files |-> [k \in {file1} |-> [Path |-> <<47, 102>>]],
     Configs |-> [k \in {cfg1} |-> BaseConfigOf(EmptyLabels, EmptyLabels, <<>>, <<>>)]]

\* a service that yields a metric but has no Vars: its path renders to the empty
\* path, which cannot be created
ObjectNoVars ==
    [Vars |-> EmptyLabels, Files |-> NoFilesOf,
     Configs |-> [k \in {cfg1} |->
                    BaseConfigOf([l \in {env} |-> dev], EmptyLabels, <<>>, <<metric1>>)]]

Objects == {ObjectA, ObjectB, ObjectNoConfigs, ObjectNoMetrics, ObjectNoVars}

svc1 == <<115, 49>>
svc2 == <<115, 50>>
ServiceKeys == {svc1, svc2}

\* the result sets of the Signal discovery: svc1 is ObjectA, has no BaseConfig or
\* has no Vars, svc2 is ObjectA, ObjectB or lists no metric
ServiceMaps ==
    {m \in UNION {[S -> Objects] : S \in {T \in SUBSET ServiceKeys : Cardinality(T) <= MaxServices}} :
        /\ svc1 \in DOMAIN m => m[svc1] \in {ObjectA, ObjectNoConfigs, ObjectNoVars}
        /\ svc2 \in DOMAIN m => m[svc2] \in {ObjectA, ObjectB, ObjectNoMetrics}}

\* the result sets of the DNS, HTTP, TCP and Cert discoveries
DispatchLabels == {[k \in {env} |-> dev], [k \in {env} |-> prod]}
\* over the keys a and b; the labels of b do not vary
DispatchTargets ==
    {m \in UNION {[S -> DispatchLabels] : S \in {T \in SUBSET {ka, kb} : Cardinality(T) <= MaxTargets}} :
        kb \in DOMAIN m => m[kb][env] = dev}

Url1 == <<117, 49>>
Url2 == <<117, 50>>
UrlSink == <<117, 115>>
usr == <<117>>
pwd == <<112>>

\* the options value of a discovery: a discovery.SignalOptions, or something else
SignalOptionsSet ==
    {[type |-> "SignalOptions", URL |-> Url1, User |-> usr, Password |-> pwd],
     [type |-> "SignalOptions", URL |-> Url2, User |-> <<>>, Password |-> <<>>]}
OtherOptions == [type |-> "other"]

\* the path template of the Signal sink: "{{.n}}"
PathTemplate == <<[var |-> vname]>>

\* a plausible slip: the variables of the template are not filled in
RenderNoVars(def, obj) ==
    Flatten([i \in 1..Len(def) |-> IF "lit" \in DOMAIN def[i] THEN def[i].lit ELSE PathA])

\* common.Render(def, obj): the template with each variable replaced by its value
\* in obj, by nothing when obj has no such key
Render(def, obj) ==
    Flatten([i \in 1..Len(def) |->
        IF "lit" \in DOMAIN def[i] THEN def[i].lit
        ELSE IF def[i].var \in DOMAIN obj THEN obj[def[i].var] ELSE <<>>])

\* NewTelegraf(options): the sink as configured
NewTelegraf(checksum, url) ==
    [Checksum |-> checksum,
     Signal |-> [URL |-> url, User |-> <<>>, Password |-> <<>>,
                 DefaultTags |-> <<env>>, Template |-> PathTemplate],
     Cert |-> [Tags |-> <<>>, Template |-> Template2, Conf |-> NoPath],
     DNS |-> [Tags |-> <<zone, env>>, Template |-> Template1, Conf |-> PathA],
     HTTP |-> [Tags |-> <<env>>, Template |-> <<>>, Conf |-> PathB],
     TCP |-> [Tags |-> <<>>, Template |-> <<>>, Conf |-> PathA]]

----------------------------------------------------------------------------
(* The sink dispatcher *)

\* common.ConvertSyncMapToLabelsMap(sm), common.ConvertSyncMapToServices(sm): the
\* sink map of the model holds only entries of the wanted type
ConvertSyncMapToLabelsMap(sm) == sm
ConvertSyncMapToServices(sm) == sm

\* what happened to one target of a Process call
TargetResult(key, path, before, b, g) ==
    [key |-> key, path |-> path, before |-> before, err |-> b.err, nobytes |-> Len(b.bytes) = 0,
     tc |-> b.tc, outcome |-> g.outcome, merged |-> g.merged, wrote |-> g.wrote]

\* the builder failed: the gate is not called
NotCalled(f) == GateResult(f, "", Nil, FALSE, FALSE)

\* the end of processCert, processDNS, processHTTP, processTCP: on a builder
\* error return it, else hand the bytes to the gate
Persist(f, b, template, conf, checksum) ==
    IF b.err # ""
    THEN [fs |-> f, err |-> b.err, results |-> <<TargetResult(<<>>, conf, f[conf], b, NotCalled(f))>>]
    ELSE LET g == CreateWithTemplateIfCheckSumIsDifferent(f, template, conf, checksum, b.bytes)
         IN  [fs |-> g.fs, err |-> "", results |-> <<TargetResult(<<>>, conf, f[conf], b, g)>>]

processCert(f, o, sm, enum) ==
    Persist(f, GenerateInputX509CertBytes(NewConfig, o.Cert.Tags, ConvertSyncMapToLabelsMap(sm), enum),
            o.Cert.Template, o.Cert.Conf, o.Checksum)

\* a plausible slip: the container outlives the call and still holds the record of
\* a target of an earlier cycle
processDNSSharedConfig(f, o, sm, enum) ==
    Persist(f, GenerateInputDNSQueryBytes(
                   [NewConfig EXCEPT !.DNSQuery = <<BuildRecord(o.DNS.Tags, [k \in {kab} |-> EmptyLabels], kab, <<>>)>>],
                   o.DNS.Tags, ConvertSyncMapToLabelsMap(sm), enum),
            o.DNS.Template, o.DNS.Conf, o.Checksum)

processDNS(f, o, sm, enum) ==
    Persist(f, GenerateInputDNSQueryBytes(NewConfig, o.DNS.Tags, ConvertSyncMapToLabelsMap(sm), enum),
            o.DNS.Template, o.DNS.Conf, o.Checksum)

processHTTP(f, o, sm, enum) ==
    Persist(f, GenerateInputHTTPResponseBytes(NewConfig, o.HTTP.Tags, ConvertSyncMapToLabelsMap(sm), enum),
            o.HTTP.Template, o.HTTP.Conf, o.Checksum)

processTCP(f, o, sm, enum) ==
    Persist(f, GenerateInputNETResponseBytes(NewConfig, o.TCP.Tags, ConvertSyncMapToLabelsMap(sm), tcp, enum),
            o.TCP.Template, o.TCP.Conf, o.Checksum)

\* the fallback of processSignal: a connection option left empty is taken from the
\* discovery's options, and stored in the sink's options
Inherit(o, opts) ==
    [o EXCEPT !.Signal.URL = IF IsEmpty(@) THEN opts.URL ELSE @,
              !.Signal.User = IF IsEmpty(@) THEN opts.User ELSE @,
              !.Signal.Password = IF IsEmpty(@) THEN opts.Password ELSE @]

\* a plausible slip: the bytes of a failed build are handed to the gate all the same,
\* after the record under construction was rendered
SignalServiceNoContinue(f, o, k, s1, desc) ==
    LET path == Render(o.Signal.Template, s1.Vars)
        b == GenerateInputPrometheusHttpBytes(NewConfig, s1, o.Signal, path,
                 GetFileKeys(s1.Files, desc), GetBaseConfigKeys(s1.Configs, desc))
        bs == IF b.err # "" THEN Encode(NewConfig) ELSE b.bytes
        g == CreateIfCheckSumIsDifferent(f, path, o.Checksum, bs)
    IN  [fs |-> g.fs, result |-> TargetResult(k, path, f[path], b, g)]

\* the body of processSignal's loop for service k: a fresh Config, the builder, and
\* on an error "continue", else the gate on the rendered path
SignalService(f, o, k, s1, desc) ==
    LET path == Render(o.Signal.Template, s1.Vars)
        b == GenerateInputPrometheusHttpBytes(NewConfig, s1, o.Signal, path,
                 GetFileKeys(s1.Files, desc), GetBaseConfigKeys(s1.Configs, desc))
    IN  IF b.err # ""
        THEN [fs |-> f, result |-> TargetResult(k, path, f[path], b, NotCalled(f))]
        ELSE LET g == CreateIfCheckSumIsDifferent(f, path, o.Checksum, b.bytes)
             IN  [fs |-> g.fs, result |-> TargetResult(k, path, f[path], b, g)]

RECURSIVE SignalLoopStopsOnError(_, _, _, _, _, _)
\* a plausible slip: the loop is left at the first service that fails
SignalLoopStopsOnError(f, o, m, order, desc, results) ==
    IF order = <<>> THEN [fs |-> f, results |-> results]
    ELSE LET r == SignalService(f, o, Head(order), m[Head(order)], desc)
         IN  IF r.result.err # "" \/ r.result.outcome = "cannot create"
             THEN [fs |-> r.fs, results |-> Append(results, r.result)]
             ELSE SignalLoopStopsOnError(r.fs, o, m, Tail(order), desc, Append(results, r.result))

RECURSIVE SignalLoop(_, _, _, _, _, _)
\* for k, s1 := range m, in the order the map yields its keys
SignalLoop(f, o, m, order, desc, results) ==
    IF order = <<>> THEN [fs |-> f, results |-> results]
    ELSE LET r == SignalService(f, o, Head(order), m[Head(order)], desc)
         IN  SignalLoop(r.fs, o, m, Tail(order), desc, Append(results, r.result))

\* a plausible slip: the result of the cast is ignored and the zero value of the
\* options is used
processSignalIgnoresCast(f, o, sm, so, order, desc) ==
    LET opts == IF so.type = "SignalOptions" THEN so
                ELSE [type |-> "SignalOptions", URL |-> <<>>, User |-> <<>>, Password |-> <<>>]
        o2 == Inherit(o, opts)
        r == SignalLoop(f, o2, ConvertSyncMapToServices(sm), order, desc, <<>>)
    IN  [fs |-> r.fs, options |-> o2, err |-> "", results |-> r.results]

processSignal(f, o, sm, so, order, desc) ==
    IF so.type # "SignalOptions"
    THEN [fs |-> f, options |-> o, err |-> "no options", results |-> <<>>]
    ELSE LET o2 == Inherit(o, so)
             r == SignalLoop(f, o2, ConvertSyncMapToServices(sm), order, desc, <<>>)
         IN  [fs |-> r.fs, options |-> o2, err |-> "", results |-> r.results]

\* Process(d, so): what the call is remembered by
Processed(dname, sm, so, r) ==
    [dname |-> dname, sm |-> sm, so |-> so, err |-> r.err, results |-> r.results]

\* a sink over an empty filesystem; its signal URL configured or left empty
InitSignal ==
    /\ targets = EmptyLabels
    /\ optTags = <<>>
    /\ run = [s \in Slots |-> NoRun]
    /\ gate = NoCall
    /\ fs = NoFiles
    /\ options \in {NewTelegraf(c, u) : c \in BOOLEAN, u \in {<<>>, UrlSink}}
    /\ last = NoProcess
    /\ configured = options
    /\ calls = NoCalls
    /\ writer = NoWriter

\* a sink over an empty filesystem, checksum mode on or off
InitSink ==
    /\ targets = EmptyLabels
    /\ optTags = <<>>
    /\ run = [s \in Slots |-> NoRun]
    /\ gate = NoCall
    /\ fs = NoFiles
    /\ options \in {NewTelegraf(c, <<>>) : c \in BOOLEAN}
    /\ last = NoProcess
    /\ configured = options
    /\ calls = NoCalls
    /\ writer = NoWriter

ProcessSignal ==
    \E sm \in ServiceMaps, so \in SignalOptionsSet \cup {OtherOptions}, desc \in BOOLEAN :
        \E order \in Orders(DOMAIN sm) :
            \E r \in {processSignal(fs, options, sm, so, order, desc)} :
            /\ fs' = r.fs
            /\ options' = r.options
            /\ last' = Processed("Signal", sm, so, r)
            /\ UNCHANGED <<concVars, targets, optTags, run, gate>>

ProcessCert ==
    \E sm \in DispatchTargets : \E enum \in GetLabelsKeys(sm) :
        \E r \in {processCert(fs, options, sm, enum)} :
        /\ fs' = r.fs
        /\ last' = Processed("Cert", sm, OtherOptions, r)
        /\ UNCHANGED <<concVars, targets, optTags, run, gate, options>>

ProcessDNS ==
    \E sm \in DispatchTargets : \E enum \in GetLabelsKeys(sm) :
        \E r \in {processDNS(fs, options, sm, enum)} :
        /\ fs' = r.fs
        /\ last' = Processed("DNS", sm, OtherOptions, r)
        /\ UNCHANGED <<concVars, targets, optTags, run, gate, options>>

ProcessHTTP ==
    \E sm \in DispatchTargets : \E enum \in GetLabelsKeys(sm) :
        \E r \in {processHTTP(fs, options, sm, enum)} :
        /\ fs' = r.fs
        /\ last' = Processed("HTTP", sm, OtherOptions, r)
        /\ UNCHANGED <<concVars, targets, optTags, run, gate, options>>

ProcessTCP ==
    \E sm \in DispatchTargets : \E enum \in GetLabelsKeys(sm) :
        \E r \in {processTCP(fs, options, sm, enum)} :
        /\ fs' = r.fs
        /\ last' = Processed("TCP", sm, OtherOptions, r)
        /\ UNCHANGED <<concVars, targets, optTags, run, gate, options>>

\* the names Process has a case for
KnownTypes == {"Signal", "Cert", "DNS", "HTTP", "TCP"}
\* names of discoveries it has no case for; "signal" differs from "Signal"
OtherTypes == {"PubSub", "signal"}

\* a plausible slip: the default case falls into the DNS case
processDefaultAsDNS(f, o, sm) ==
    [options |-> o] @@ processDNS(f, o, sm, SortedKeys(sm))

\* the default case of Process: a debug line, and return
processDefault(f, o, sm) ==
    [fs |-> f, options |-> o, err |-> "", results |-> <<>>]

\* a discovery type the sink has no support for
ProcessOther ==
    \E dname \in OtherTypes, sm \in DispatchTargets :
        \E r \in {processDefault(fs, options, sm)} :
        /\ fs' = r.fs
        /\ options' = r.options
        /\ last' = Processed(dname, sm, OtherOptions, r)
        /\ UNCHANGED <<concVars, targets, optTags, run, gate>>

\* the Signal discovery handing its result sets to the sink
NextSignal == ProcessSignal

SpecSignal == InitSignal /\ [][NextSignal]_vars

\* the Cert, DNS, HTTP, TCP and unsupported discoveries handing theirs
NextSink == ProcessCert \/ ProcessDNS \/ ProcessHTTP \/ ProcessTCP \/ ProcessOther

SpecSink == InitSink /\ [][NextSink]_vars

----------------------------------------------------------------------------
(* Process calls running concurrently, one per worker: each worker is a       *)
(* goroutine of a discovery; a step is one access to the sink's options or to *)
(* the filesystem, with the computation on locals that follows it             *)

\* the locals of a Process call
CallOf(pc, dname, sm, so) ==
    [pc |-> pc, dname |-> dname, sm |-> sm, so |-> so, alone |-> NewConfig, field |-> 0,
     path |-> NoPath, tc |-> NewConfig, merged |-> Nil, seen |-> Absent, outcome |-> ""]

\* the result sets of the concurrent calls: one service, or one target
ConcServiceMaps == {[k \in {svc1} |-> ObjectA], [k \in {svc2} |-> ObjectB]}
ConcTargets == {m \in DispatchTargets : DOMAIN m = {ka}}

\* the connection options of the fallback, in the order processSignal takes them
Fields == <<"URL", "User", "Password">>
FieldOf(rec, i) == CASE i = 1 -> rec.URL [] i = 2 -> rec.User [] i = 3 -> rec.Password
WithField(o, i, v) ==
    CASE i = 1 -> [o EXCEPT !.Signal.URL = v]
      [] i = 2 -> [o EXCEPT !.Signal.User = v]
      [] i = 3 -> [o EXCEPT !.Signal.Password = v]

\* after the builder: with no bytes the gate returns at once, else it merges the
\* template and calls FileWriteWithCheckSum, which compares first in checksum mode
ToGate(c, path, b, template, checksum) ==
    IF b.err # "" THEN [c EXCEPT !.pc = "done", !.path = path]
    ELSE IF b.bytes = Nil \/ Len(b.bytes) = 0
    THEN [c EXCEPT !.pc = "done", !.path = path, !.tc = b.tc, !.outcome = "no query config"]
    ELSE [c EXCEPT !.pc = IF checksum THEN "compare" ELSE "write", !.path = path,
                   !.tc = b.tc, !.merged = MergeTemplate(b.bytes, template)]

InitConc ==
    /\ targets = EmptyLabels
    /\ optTags = <<>>
    /\ run = [s \in Slots |-> NoRun]
    /\ gate = NoCall
    /\ fs = NoFiles
    /\ options \in {NewTelegraf(c, <<>>) : c \in BOOLEAN}
    /\ last = NoProcess
    /\ configured = options
    /\ calls = NoCalls
    /\ writer = NoWriter

\* Process("Signal") is entered: the cast of the options succeeds; alone is the
\* container the call builds when no other call runs beside it
StartSignal(w) ==
    /\ calls[w].pc = "idle"
    /\ \E sm \in ConcServiceMaps, so \in SignalOptionsSet :
        \E r \in {processSignal(fs, options, sm, so, SortedKeys(sm), FALSE)} :
            calls' = [calls EXCEPT ![w] =
                [CallOf("test", "Signal", sm, so) EXCEPT !.alone = r.results[1].tc, !.field = 1]]
    /\ UNCHANGED <<buildVars, fs, gate, options, last, configured, writer>>

\* if utils.IsEmpty(t.options.Signal.X): the read of the sink's option
TestOption(w) ==
    /\ calls[w].pc = "test"
    /\ calls' = [calls EXCEPT ![w] =
            IF IsEmpty(FieldOf(options.Signal, calls[w].field))
            THEN [@ EXCEPT !.pc = "set"]
            ELSE IF calls[w].field < Len(Fields)
            THEN [@ EXCEPT !.field = @ + 1]
            ELSE [@ EXCEPT !.pc = "build"]]
    /\ UNCHANGED <<buildVars, fs, gate, options, last, configured, writer>>

\* t.options.Signal.X = opts.X: the write of the sink's option
SetOption(w) ==
    /\ calls[w].pc = "set"
    /\ options' = WithField(options, calls[w].field, FieldOf(calls[w].so, calls[w].field))
    /\ calls' = [calls EXCEPT ![w] =
            IF calls[w].field < Len(Fields)
            THEN [@ EXCEPT !.pc = "test", !.field = @ + 1]
            ELSE [@ EXCEPT !.pc = "build"]]
    /\ UNCHANGED <<buildVars, fs, gate, last, configured, writer>>

\* the body of the loop for the service: the sink's options are read when the
\* builder is called
BuildSignal(w) ==
    /\ calls[w].pc = "build"
    /\ LET k == CHOOSE k \in DOMAIN calls[w].sm : TRUE
           s1 == calls[w].sm[k]
           path == Render(options.Signal.Template, s1.Vars)
           b == GenerateInputPrometheusHttpBytes(NewConfig, s1, options.Signal, path,
                    GetFileKeys(s1.Files, FALSE), GetBaseConfigKeys(s1.Configs, FALSE))
       IN  calls' = [calls EXCEPT ![w] = ToGate(@, path, b, <<>>, options.Checksum)]
    /\ UNCHANGED <<buildVars, fs, gate, options, last, configured, writer>>

\* Process("DNS") or Process("TCP"), both configured for the same path, up to the
\* call of FileWriteWithCheckSum: the builder works on a Config of its own
StartFile(w) ==
    /\ calls[w].pc = "idle"
    /\ \E dname \in {"DNS", "TCP"}, sm \in ConcTargets :
        LET b == IF dname = "DNS"
                 THEN GenerateInputDNSQueryBytes(NewConfig, options.DNS.Tags, sm, SortedKeys(sm))
                 ELSE GenerateInputNETResponseBytes(NewConfig, options.TCP.Tags, sm, tcp, SortedKeys(sm))
            template == IF dname = "DNS" THEN options.DNS.Template ELSE options.TCP.Template
            conf == IF dname = "DNS" THEN options.DNS.Conf ELSE options.TCP.Conf
        IN  calls' = [calls EXCEPT ![w] =
                ToGate(CallOf("idle", dname, sm, OtherOptions), conf, b, template, options.Checksum)]
    /\ UNCHANGED <<buildVars, fs, gate, options, last, configured, writer>>

\* the log line the gate ends with
GateLog(exists, err) ==
    IF err THEN "cannot create" ELSE IF exists THEN "exists, skipped" ELSE "created or replaced"

\* FileWriteWithCheckSum in checksum mode: the file is read and its fingerprint
\* compared with that of the merged bytes
Compare(w) ==
    /\ calls[w].pc = "compare"
    /\ calls' = [calls EXCEPT ![w] =
            IF SameCheckSum(fs, calls[w].path, calls[w].merged)
            THEN [@ EXCEPT !.pc = "done", !.seen = fs[calls[w].path],
                           !.outcome = GateLog(TRUE, FALSE)]
            ELSE [@ EXCEPT !.pc = "write", !.seen = fs[calls[w].path]]]
    /\ UNCHANGED <<buildVars, fs, gate, options, last, configured, writer>>

\* FileWriteWithCheckSum: the file is created or overwritten with the merged bytes
Write(w) ==
    /\ calls[w].pc = "write"
    /\ IF Unwritable(calls[w].path)
       THEN /\ calls' = [calls EXCEPT ![w] = [@ EXCEPT !.pc = "done", !.outcome = GateLog(FALSE, TRUE)]]
            /\ UNCHANGED <<fs, writer>>
       ELSE /\ fs' = [fs EXCEPT ![calls[w].path] = calls[w].merged]
            /\ writer' = [writer EXCEPT ![calls[w].path] = w]
            /\ calls' = [calls EXCEPT ![w] = [@ EXCEPT !.pc = "done", !.outcome = GateLog(FALSE, FALSE)]]
    /\ UNCHANGED <<buildVars, gate, options, last, configured>>

NextConc ==
    \E w \in Workers :
        \/ StartSignal(w) \/ TestOption(w) \/ SetOption(w) \/ BuildSignal(w)
        \/ StartFile(w) \/ Compare(w) \/ Write(w)

SpecConc == InitConc /\ [][NextConc]_vars

----------------------------------------------------------------------------
(* Rendering of containers whose records were appended in any order *)

RecordA == [NewInput EXCEPT !.Ids = <<ka>>, !.Tags = [l \in {env} |-> dev]]
RecordB == [NewInput EXCEPT !.Ids = <<kb>>, !.Include = <<env>>]
PromOf(name) ==
    [Name |-> name, URL |-> Url1, User |-> <<>>, Password |-> <<>>, Tags |-> EmptyLabels,
     File |-> <<>>, Metric |-> <<>>, Include |-> <<>>]

\* the record lists of up to MaxRecords records
RecordLists == UNION {[1..n -> {RecordA, RecordB}] : n \in 0..MaxRecords}

Containers ==
    [PrometheusHttp : {<<>>, <<PromOf(PathA), PromOf(PathB)>>, <<PromOf(PathB), PromOf(PathA)>>},
     DNSQuery : RecordLists,
     HTTPResponse : {<<>>, <<RecordB>>},
     NetResponse : {<<>>},
     X509Cert : RecordLists]

InitRender ==
    /\ targets = EmptyLabels
    /\ optTags = <<>>
    /\ run = [s \in Slots |-> NoRun]
    /\ fs = NoFiles
    /\ gate = NoCall
    /\ options = NoOptions
    /\ last = NoProcess
    /\ configured = options
    /\ calls = NoCalls
    /\ writer = NoWriter

\* toml.NewEncoder(w).Encode(tc) on a container
RenderContainer ==
    \E tc \in Containers :
        /\ run' = [run EXCEPT ![1] = RunOf("Render", <<>>, Built(tc))]
        /\ UNCHANGED <<concVars, fs, gate, targets, optTags, options, last>>

NextRender == RenderContainer

SpecRender == InitRender /\ [][NextRender]_vars

----------------------------------------------------------------------------
(* Runs of the metrics builder on one Object *)

file2 == <<102, 50>>
availability1 == <<97, 49>>

\* the BaseConfigs of the runs: one with labels, Vars and a quality; one with other
\* labels, no Vars, an availability check and a metric; one that lists nothing
PromConfigs ==
    {[Labels |-> [l \in {zone} |-> prod], Vars |-> [v \in {vname} |-> <<120>>],
      Qualities |-> <<quality1>>, Availability |-> <<>>, Metrics |-> <<>>],
     [Labels |-> [l \in {env} |-> dev], Vars |-> EmptyLabels,
      Qualities |-> <<>>, Availability |-> <<availability1>>, Metrics |-> <<metric1>>],
     BaseConfigOf(EmptyLabels, EmptyLabels, <<>>, <<>>)}

\* the Objects of the runs: with or without Vars, up to two files, up to two
\* BaseConfigs, and labels of their own
PromObjects ==
    [Labels : {[l \in {env} |-> prod]},
     Vars : {EmptyLabels, [v \in {vname} |-> PathA]},
     Files : UNION {[S -> {[Path |-> <<47, 102>>]}] : S \in SUBSET {file1, file2}},
     Configs : UNION {[S -> PromConfigs] : S \in SUBSET {cfg1, cfg2}}]

PromOptions == [URL |-> Url1, User |-> usr, Password |-> pwd, DefaultTags |-> <<zone>>]

\* the container the builder is called on: fresh, or holding a record already
PromContainers == {NewConfig, [NewConfig EXCEPT !.PrometheusHttp = <<PromOf(PathB)>>]}

InitProm ==
    /\ targets \in PromObjects
    /\ optTags = <<>>
    /\ run = [s \in Slots |-> NoRun]
    /\ fs = NoFiles
    /\ gate = NoCall
    /\ options = NoOptions
    /\ last = NoProcess
    /\ configured = options
    /\ calls = NoCalls
    /\ writer = NoWriter

\* tc.GenerateInputPrometheusHttpBytes(s, ...) with the maps ranged over in any order
RunProm ==
    \E sl \in Slots, tc \in PromContainers :
        \E fenum \in Orders(DOMAIN targets.Files), kenum \in Orders(DOMAIN targets.Configs) :
            /\ run' = [run EXCEPT ![sl] =
                    [before |-> tc] @@
                    RunOf("Prom", kenum,
                          GenerateInputPrometheusHttpBytes(tc, targets, PromOptions, PathA, fenum, kenum))]
            /\ UNCHANGED <<concVars, fs, gate, targets, optTags, options, last>>

NextProm == RunProm

SpecProm == InitProm /\ [][NextProm]_vars

----------------------------------------------------------------------------
(* Signal result sets in which services share an output path *)

\* ObjectA with another label: its file goes to PathA too, with another content
ObjectAProd ==
    [ObjectA EXCEPT !.Configs =
        [k \in {cfg1} |-> BaseConfigOf([l \in {env} |-> prod], EmptyLabels, <<>>, <<metric1>>)]]

\* svc1 writes to PathA; svc2 writes to PathA, the same or another content, or to PathB
SharedPathMaps ==
    {m \in UNION {[S -> {ObjectA, ObjectAProd, ObjectB}] : S \in SUBSET ServiceKeys} :
        svc1 \in DOMAIN m => m[svc1] = ObjectA}

\* Process(d, so) for the Signal discovery with such a result set
ProcessSharedPath ==
    \E sm \in SharedPathMaps, so \in SignalOptionsSet, desc \in BOOLEAN :
        \E order \in Orders(DOMAIN sm) :
            \E r \in {processSignal(fs, options, sm, so, order, desc)} :
            /\ fs' = r.fs
            /\ options' = r.options
            /\ last' = Processed("Signal", sm, so, r)
            /\ UNCHANGED <<concVars, targets, optTags, run, gate>>

NextShared == ProcessSharedPath

SpecShared == InitSignal /\ [][NextShared]_vars

----------------------------------------------------------------------------
(* Builder calls made one after another on the same Config *)

\* the result sets of the calls
AppendMaps ==
    {m \in DispatchTargets : DOMAIN m # {} => (ka \in DOMAIN m /\ m[ka][env] = dev)}
AppendTags == <<env>>
BuilderKinds == {"DNS", "HTTP", "TCP", "Cert"}

\* the builder of the given kind called on container tc
BuilderOf(kind, tc, input) ==
    CASE kind = "DNS" -> GenerateInputDNSQueryBytes(tc, AppendTags, input, SortedKeys(input))
      [] kind = "HTTP" -> GenerateInputHTTPResponseBytes(tc, AppendTags, input, SortedKeys(input))
      [] kind = "TCP" -> GenerateInputNETResponseBytes(tc, AppendTags, input, tcp, SortedKeys(input))
      [] kind = "Cert" -> GenerateInputX509CertBytes(tc, AppendTags, input, SortedKeys(input))
      [] kind = "Prom" -> GenerateInputPrometheusHttpBytes(tc, input, PromOptions, PathA,
                              SortedKeys(input.Files), SortedKeys(input.Configs))

\* the container the next call is made on, and the number of calls made on it
Container == IF run[1].done THEN run[1].tc ELSE NewConfig
CallsMade == IF run[1].done THEN run[1].n ELSE 0

InitAppend ==
    /\ targets = EmptyLabels
    /\ optTags = AppendTags
    /\ run = [s \in Slots |-> NoRun]
    /\ fs = NoFiles
    /\ gate = NoCall
    /\ options = NoOptions
    /\ last = NoProcess
    /\ configured = options
    /\ calls = NoCalls
    /\ writer = NoWriter

\* one more call of a builder of the target maps on the container
AppendTargets ==
    /\ CallsMade < MaxCalls
    /\ \E kind \in BuilderKinds, m \in AppendMaps :
        /\ run' = [run EXCEPT ![1] =
                [input |-> m, n |-> CallsMade + 1]
                @@ RunOf(kind, SortedKeys(m), BuilderOf(kind, Container, m))]
        /\ UNCHANGED <<concVars, fs, gate, targets, optTags, options, last>>

\* one more call of the metrics builder, on a service that yields metrics
AppendService ==
    /\ CallsMade < MaxCalls
    /\ \E s \in {ObjectA, ObjectB} :
        /\ run' = [run EXCEPT ![1] =
                [input |-> s, n |-> CallsMade + 1]
                @@ RunOf("Prom", <<>>, BuilderOf("Prom", Container, s))]
        /\ UNCHANGED <<concVars, fs, gate, targets, optTags, options, last>>

NextAppend == AppendTargets \/ AppendService

SpecAppend == InitAppend /\ [][NextAppend]_vars

----------------------------------------------------------------------------
(* Claims about the builders, checked under SpecBuild *)

DoneRuns == {s \in Slots : run[s].done}

\* C1: determinism. For a fixed target map and fixed options, two independent runs
\* of the same builder, each on a fresh Config, produce the same record lists and
\* the same bytes, whatever order the map's keys were enumerated in.
C1_Determinism ==
    \A s, t \in DoneRuns :
        run[s].kind = run[t].kind => run[s].tc = run[t].tc /\ run[s].bytes = run[t].bytes

\* two runs of one builder over at least two keys, enumerated in different orders
C1_Witness ==
    /\ DoneRuns = Slots
    /\ run[1].kind = run[2].kind
    /\ run[1].presorted /\ ~run[2].presorted
    /\ Cardinality(DOMAIN targets) >= 2
    /\ Len(ListOf(run[1].kind, run[1].tc)) >= 2

\* C2: a builder called on a fresh Config with target map M produces exactly one
\* record per key of M, the record for key k has k as its only target identifier,
\* and the records are in strictly ascending byte-wise order of their keys.
C2_OneRecordPerKeySorted ==
    \A s \in DoneRuns :
        LET L == ListOf(run[s].kind, run[s].tc) IN
        /\ Len(L) = Cardinality(DOMAIN targets)
        /\ \A i \in 1..Len(L) : Len(L[i].Ids) = 1 /\ L[i].Ids[1] \in DOMAIN targets
        /\ \A k \in DOMAIN targets : \E i \in 1..Len(L) : L[i].Ids = <<k>>
        /\ \A i \in 1..(Len(L) - 1) : StrLess(L[i].Ids[1], L[i + 1].Ids[1])
        /\ \A kind \in {"DNS", "HTTP", "TCP", "Cert"} \ {run[s].kind} :
               ListOf(kind, run[s].tc) = <<>>

\* a run over two keys that the map yielded in descending order
C2_Witness ==
    \E s \in DoneRuns :
        /\ ~run[s].presorted
        /\ Len(ListOf(run[s].kind, run[s].tc)) = Cardinality(DOMAIN targets)
        /\ Cardinality(DOMAIN targets) >= 2

\* the sorted, duplicate-free union of the default tag names and the label keys
IncludeUnion(tags, labels) == SortStrings(AppendNew(AppendNew(<<>>, tags), SortedKeys(labels)))

\* C3: for every record emitted for target key k, Include is the sorted,
\* duplicate-free union of the options' default tag names and the keys of the
\* labels resolved for k, and Tags equals the labels resolved for k.
C3_IncludeIsUnionWithLabelKeys ==
    \A s \in DoneRuns :
        LET L == ListOf(run[s].kind, run[s].tc) IN
        \A i \in 1..Len(L) :
            /\ L[i].Tags = targets[L[i].Ids[1]]
            /\ L[i].Include = IncludeUnion(optTags, targets[L[i].Ids[1]])

\* C10: the DNS, HTTP, TCP and Cert builders never return an error; called with an
\* empty target map they return without error and add no record to any list.
C10_NoErrorOnEmpty ==
    \A s \in DoneRuns :
        /\ run[s].err = ""
        /\ DOMAIN targets = {} => run[s].tc = NewConfig

\* each of the four builders has run on the empty target map
C10_Witness ==
    /\ DOMAIN targets = {}
    /\ DoneRuns = Slots
    /\ run[1].kind = "HTTP" /\ run[2].kind = "Cert"
    /\ run[1].err = "" /\ run[2].bytes = Encode(NewConfig)

----------------------------------------------------------------------------
(* Claims about the persistence gate, checked under SpecGate *)

\* C4: idempotent persistence. In checksum mode, a call with non-empty bytes whose
\* merged bytes X are what the file at the path already holds (as after a call that
\* wrote X, no other writer in between) performs no write, leaves the file as it is
\* and takes the "exists, skipped" outcome.
C4_IdempotentPersistence ==
    (gate.called /\ gate.checksum /\ Len(gate.bs) > 0
        /\ gate.before = MergeTemplate(gate.bs, gate.template))
    => /\ ~gate.wrote
       /\ gate.outcome = "exists, skipped"
       /\ fs[gate.conf] = gate.before

\* a checksum-mode call that found its own merged bytes, template included, in the file
C4_Witness ==
    /\ gate.called /\ gate.checksum /\ gate.template = Template1
    /\ gate.before = gate.bs \o <<NL>> \o Template1
    /\ gate.outcome = "exists, skipped"

\* C6: empty-result skip. When the generated bytes are nil or empty no file is
\* created, overwritten or read, whatever the template and the checksum flag.
C6_EmptyResultSkip ==
    (gate.called /\ Len(gate.bs) = 0)
    => /\ ~gate.wrote /\ ~gate.compared
       /\ gate.outcome = "no query config"
       /\ fs[gate.conf] = gate.before

\* empty bytes with a template, checksum mode off, on a path that holds no file
C6_Witness ==
    /\ gate.called /\ gate.bs = <<>> /\ gate.template = Template2 /\ ~gate.checksum
    /\ gate.conf = PathA /\ fs[PathA] = Absent /\ fs[PathB] # Absent

C8_AlwaysOverwrite ==
    (gate.called /\ ~gate.checksum /\ Len(gate.bs) > 0)
    => /\ gate.outcome # "exists, skipped"
       /\ gate.outcome = (IF Unwritable(gate.conf) THEN "cannot create" ELSE "created or replaced")
       /\ ~Unwritable(gate.conf) => gate.wrote /\ fs[gate.conf] = gate.merged

\* checksum mode off and the file already held the merged bytes: written again
C8_Witness ==
    /\ gate.called /\ ~gate.checksum /\ Len(gate.bs) > 0
    /\ gate.before = gate.merged
    /\ gate.wrote /\ gate.outcome = "created or replaced"

----------------------------------------------------------------------------
(* Claims about the dispatcher, checked under SpecSink and SpecSignal *)

FileKinds == {"Cert", "DNS", "HTTP", "TCP"}

\* the two result sets have the same keys and the same label names, and differ in
\* the value of exactly one label of exactly one key
OneLabelChanged(R1, R2) ==
    /\ DOMAIN R1 = DOMAIN R2
    /\ \A k \in DOMAIN R1 : DOMAIN R1[k] = DOMAIN R2[k]
    /\ Cardinality({<<k, l>> \in UNION {{<<k2, l2>> : l2 \in DOMAIN R1[k2]} : k2 \in DOMAIN R1} :
                        R1[k][l] # R2[k][l]}) = 1

\* the content a dispatch of the given kind puts into its file for result set R
WrittenFor(dname, o, R) ==
    CASE dname = "DNS" ->
            MergeTemplate(GenerateInputDNSQueryBytes(NewConfig, o.DNS.Tags, R, SortedKeys(R)).bytes,
                          o.DNS.Template)
      [] dname = "HTTP" ->
            MergeTemplate(GenerateInputHTTPResponseBytes(NewConfig, o.HTTP.Tags, R, SortedKeys(R)).bytes,
                          o.HTTP.Template)
      [] dname = "TCP" ->
            MergeTemplate(GenerateInputNETResponseBytes(NewConfig, o.TCP.Tags, R, tcp, SortedKeys(R)).bytes,
                          o.TCP.Template)
      [] dname = "Cert" ->
            MergeTemplate(GenerateInputX509CertBytes(NewConfig, o.Cert.Tags, R, SortedKeys(R)).bytes,
                          o.Cert.Template)

\* C5: change detection. If the file held what a dispatch wrote for a result set and
\* the next dispatch differs from that set only in the value of one label of one
\* key, the new output differs from the file's content, and in checksum mode the
\* gate overwrites the file, takes the "created or replaced" outcome and the file
\* holds the new merged bytes.
C5_ChangeDetection ==
    last.dname \in FileKinds =>
        \A R \in DispatchTargets :
            (OneLabelChanged(R, last.sm)
                /\ last.results[1].before = WrittenFor(last.dname, options, R))
            => /\ last.results[1].merged # last.results[1].before
               /\ last.results[1].merged = WrittenFor(last.dname, options, last.sm)
               /\ options.Checksum =>
                    /\ last.results[1].wrote
                    /\ last.results[1].outcome = "created or replaced"
                    /\ fs[last.results[1].path] = last.results[1].merged

\* in checksum mode a DNS dispatch over two keys found the file written for the same
\* keys with another value of one label, and has replaced it
C5_Witness ==
    /\ last.dname = "DNS" /\ options.Checksum
    /\ DOMAIN last.sm = {ka, kb}
    /\ \E R \in DispatchTargets :
          /\ OneLabelChanged(R, last.sm)
          /\ last.results[1].before = WrittenFor("DNS", options, R)
    /\ last.results[1].outcome = "created or replaced"

\* no BaseConfig of the Object lists a quality, an availability check or a metric
ZeroMetrics(s) ==
    \A k \in DOMAIN s.Configs :
        s.Configs[k].Qualities = <<>> /\ s.Configs[k].Availability = <<>> /\ s.Configs[k].Metrics = <<>>

\* C9: metrics-required failure. For a service whose Object yields zero metric
\* entries (in particular one with zero BaseConfigs) the metrics builder returns the
\* error and no bytes, and the Signal dispatch neither calls the gate nor writes a
\* file for that service.
C9_MetricsRequired ==
    (last.dname = "Signal" /\ last.err = "") =>
        /\ Len(last.results) = Cardinality(DOMAIN last.sm)
        /\ \A i \in 1..Len(last.results) :
            ZeroMetrics(last.sm[last.results[i].key]) =>
                /\ last.results[i].err = "Metrics are not found."
                /\ last.results[i].nobytes
                /\ last.results[i].outcome = ""
                /\ ~last.results[i].wrote
                /\ last.results[i].merged = Nil

\* a dispatch over a service with no BaseConfig, which failed, and another service,
\* whose file was written
C9_Witness ==
    /\ last.dname = "Signal" /\ Len(last.results) = 2
    /\ \E i, j \in 1..2 :
          /\ last.sm[last.results[i].key] = ObjectNoConfigs
          /\ last.results[i].err = "Metrics are not found."
          /\ fs[last.results[i].path] = Absent
          /\ last.results[j].wrote

\* the keys the results of the last call are about
ResultKeys == {last.results[i].key : i \in 1..Len(last.results)}

\* result i is the last of the call that is about its path and handed bytes to the gate
LastForPath(i) ==
    \A j \in (i + 1)..Len(last.results) :
        last.results[j].path = last.results[i].path => last.results[j].merged = Nil

\* C11: partial-failure isolation. A Signal dispatch with valid options returns no
\* error and processes every service of the result set, in whatever order and
\* whichever of the other services fail in the builder or in the gate: a service
\* that yields a metric is built, and a built service whose path can be written has
\* its bytes handed to the gate and either written or found unchanged, so that the
\* file holds them unless a later service of the call has the same path.
C11_PartialFailureIsolation ==
    (last.dname = "Signal" /\ last.so.type = "SignalOptions") =>
        /\ last.err = ""
        /\ Len(last.results) = Cardinality(DOMAIN last.sm)
        /\ ResultKeys = DOMAIN last.sm
        /\ \A i \in 1..Len(last.results) :
            LET r == last.results[i] IN
            /\ ~ZeroMetrics(last.sm[r.key]) => r.err = ""
            /\ (r.err = "" /\ ~Unwritable(r.path)) =>
                /\ r.merged # Nil
                /\ r.wrote \/ (r.outcome = "exists, skipped" /\ r.before = r.merged)
                /\ LastForPath(i) => fs[r.path] = r.merged
            /\ (r.err = "" /\ Unwritable(r.path)) => r.outcome = "cannot create"

\* the first service processed failed in the gate, on a path that cannot be created,
\* and the second one was written all the same
C11_Witness ==
    /\ last.dname = "Signal" /\ last.err = "" /\ Len(last.results) = 2
    /\ last.results[1].err = "" /\ last.results[1].outcome = "cannot create"
    /\ last.results[2].wrote /\ fs[last.results[2].path] = last.results[2].merged

\* C12: a Process call for a discovery type other than Signal, Cert, DNS, HTTP and
\* TCP is a no-op: it builds no record, leaves every file and the sink's options as
\* they were, and reports no error.
C12_UnknownTypeNoOp ==
    [][(last'.dname \notin KnownTypes \cup {""}) =>
            /\ fs' = fs
            /\ options' = options
            /\ last'.err = ""
            /\ last'.results = <<>>]_vars

\* an unsupported discovery was processed, with a non-empty result set, by a sink
\* that has written a file before and whose DNS file does not exist
C12_Witness ==
    /\ last.dname \in OtherTypes
    /\ DOMAIN last.sm # {}
    /\ fs[PathB] # Absent
    /\ fs[PathA] = Absent

\* the record the metrics builder makes of service s alone for the sink options o
RecordOf(o, s) ==
    GenerateInputPrometheusHttpBytes(NewConfig, s, o.Signal, Render(o.Signal.Template, s.Vars),
                                     SortedKeys(s.Files), SortedKeys(s.Configs))

\* what the path template "{{.n}}" of the sink expands to with the Vars of s
ExpandedPath(s) == IF vname \in DOMAIN s.Vars THEN s.Vars[vname] ELSE <<>>

\* C13: Signal fan-out. A Signal dispatch makes one attempt per service: a service
\* whose build succeeds has the bytes of a container holding exactly one
\* PrometheusHttp record, built from that service alone, handed to the gate once,
\* for the path its Vars expand the path template to; a service whose build fails
\* has nothing handed to the gate; and no file at any other path is touched.
C13_SignalFanOut ==
    [][(last'.dname = "Signal" /\ last'.so.type = "SignalOptions") =>
        /\ Len(last'.results) = Cardinality(DOMAIN last'.sm)
        /\ \A k \in DOMAIN last'.sm : \E i \in 1..Len(last'.results) : last'.results[i].key = k
        /\ \A i \in 1..Len(last'.results) :
            LET r == last'.results[i]
                s == last'.sm[r.key]
            IN  /\ r.path = ExpandedPath(s)
                /\ r.err = "" =>
                    /\ Len(r.tc.PrometheusHttp) = 1
                    /\ r.tc = RecordOf(options', s).tc
                    /\ r.merged = Encode(r.tc)
                    /\ r.outcome \in {"created or replaced", "exists, skipped", "cannot create"}
                /\ r.err # "" => r.merged = Nil /\ ~r.wrote
        /\ \A p \in Paths :
            fs'[p] # fs[p] =>
                \E i \in 1..Len(last'.results) :
                    /\ last'.results[i].path = p /\ last'.results[i].wrote
                    /\ last'.results[i].err = ""]_vars

\* a dispatch over two services was built and written to two different paths
C13_Witness ==
    /\ last.dname = "Signal" /\ Len(last.results) = 2
    /\ last.results[1].wrote /\ last.results[2].wrote
    /\ last.results[1].path # last.results[2].path
    /\ fs[last.results[1].path] = last.results[1].merged
    /\ fs[last.results[2].path] = last.results[2].merged

\* the fixed path and the template configured for a discovery type
ConfOf(dname, o) ==
    CASE dname = "DNS" -> o.DNS.Conf [] dname = "HTTP" -> o.HTTP.Conf
      [] dname = "TCP" -> o.TCP.Conf [] dname = "Cert" -> o.Cert.Conf
TemplateOf(dname, o) ==
    CASE dname = "DNS" -> o.DNS.Template [] dname = "HTTP" -> o.HTTP.Template
      [] dname = "TCP" -> o.TCP.Template [] dname = "Cert" -> o.Cert.Template

\* the target identifiers of a record list, in the order of the records
IdsOf(list) == Flatten([i \in 1..Len(list) |-> list[i].Ids])

\* the number of records in the lists of a container
RecordCount(tc) ==
    Len(tc.PrometheusHttp) + Len(tc.DNSQuery) + Len(tc.HTTPResponse)
        + Len(tc.NetResponse) + Len(tc.X509Cert)

\* C14: a Cert, DNS, HTTP or TCP dispatch hands bytes to the gate once, for the
\* Conf path configured for its type, and changes no other file; the bytes are
\* those of a container whose only records are one per target key of this call's
\* result set, whatever earlier calls have written.
C14_SingleSharedFile ==
    [][last'.dname \in FileKinds =>
        /\ Len(last'.results) = 1
        /\ LET r == last'.results[1] IN
            /\ r.path = ConfOf(last'.dname, options')
            /\ IdsOf(ListOf(last'.dname, r.tc)) = SortedKeys(last'.sm)
            /\ RecordCount(r.tc) = Cardinality(DOMAIN last'.sm)
            /\ r.merged = MergeTemplate(Encode(r.tc), TemplateOf(last'.dname, options'))
            /\ r.wrote => fs'[r.path] = r.merged
            /\ \A p \in Paths : fs'[p] # fs[p] => (p = r.path /\ r.wrote)]_vars

\* the DNS file held the records of two targets; the dispatch of a later cycle,
\* with one of them gone, has replaced it
C14_Witness ==
    /\ last.dname = "DNS" /\ DOMAIN last.sm = {ka}
    /\ \E R \in DispatchTargets :
          /\ DOMAIN R = {ka, kb}
          /\ last.results[1].before = WrittenFor("DNS", options, R)
    /\ last.results[1].wrote
    /\ fs[PathA] = WrittenFor("DNS", options, last.sm)

\* the connection options a Signal call is to use: the configured value, or, where
\* none was configured, the one of the call's own discovery options
FallbackOf(conf, own) == IF IsEmpty(conf) THEN own ELSE conf

\* C15: fallback connection options. In every Signal dispatch the URL, user and
\* password of the records built are the values configured for the sink, and where
\* none was configured those of the call's own discovery options.
C15_FallbackFromOwnOptions ==
    (last.dname = "Signal" /\ last.so.type = "SignalOptions") =>
        \A i \in 1..Len(last.results) :
            last.results[i].err = "" =>
                LET rec == last.results[i].tc.PrometheusHttp[1] IN
                /\ rec.URL = FallbackOf(configured.Signal.URL, last.so.URL)
                /\ rec.User = FallbackOf(configured.Signal.User, last.so.User)
                /\ rec.Password = FallbackOf(configured.Signal.Password, last.so.Password)

----------------------------------------------------------------------------
(* Claims about concurrent Process calls, checked under SpecConc *)

\* the call of worker w has built its record
HasBuilt(w) == calls[w].pc \in {"compare", "write", "done"}

\* C16: concurrent dispatch calls share no mutable state, so the records a call
\* builds are those it builds when it runs alone, under every interleaving with
\* another call.
C16_RecordsSameUnderInterleaving ==
    \A w \in Workers :
        (HasBuilt(w) /\ calls[w].dname = "Signal") => calls[w].tc = calls[w].alone

----------------------------------------------------------------------------
(* Claims about the rendered document, checked under SpecRender *)

RECURSIVE Lines(_)
\* the lines of a document, each without its newline
Lines(doc) ==
    IF doc = <<>> THEN <<>>
    ELSE LET n == CHOOSE i \in 1..(Len(doc) + 1) :
                    /\ i = Len(doc) + 1 \/ doc[i] = NL
                    /\ \A j \in 1..(i - 1) : doc[j] # NL
         IN  <<SubSeq(doc, 1, n - 1)>> \o Lines(SubSeq(doc, n + 1, Len(doc)))

\* the line holds the byte string somewhere
Mentions(line, str) ==
    \E i \in 1..Len(line) : i + Len(str) - 1 <= Len(line) /\ SubSeq(line, i, i + Len(str) - 1) = str

\* the variants of the container: the name of the section and the list
Variants(tc) ==
    <<[section |-> <<112, 104>>, list |-> tc.PrometheusHttp],
      [section |-> <<100, 113>>, list |-> tc.DNSQuery],
      [section |-> <<104, 114>>, list |-> tc.HTTPResponse],
      [section |-> <<110, 114>>, list |-> tc.NetResponse],
      [section |-> <<120, 99>>, list |-> tc.X509Cert]>>

\* the text of a line between its first and its last quote
Quoted(l) ==
    LET q == {i \in 1..Len(l) : l[i] = 34}
        lo == CHOOSE i \in q : \A j \in q : i <= j
        hi == CHOOSE i \in q : \A j \in q : j <= i
    IN  SubSeq(l, lo + 1, hi - 1)

\* the first field of each record of the section, as the document lists them: the
\* line after each [[section]] line
ListedIn(lines, section) ==
    LET at == SelectSeq([i \in 1..Len(lines) |-> i],
                        LAMBDA i : lines[i] = <<91, 91>> \o section \o <<93, 93>>)
    IN  [j \in 1..Len(at) |-> Quoted(lines[at[j] + 1])]

\* the first field of a record: its name, or its target
FirstField(r) == IF "Name" \in DOMAIN r THEN r.Name ELSE r.Ids[1]

\* C18: the rendered document lists the records of each variant in the order in
\* which they were appended to the container, and does not mention a variant whose
\* list is empty.
C18_RenderOrderOmitEmpty ==
    (run[1].done /\ run[1].kind = "Render") =>
        LET lines == Lines(run[1].bytes)
            vs == Variants(run[1].tc)
        IN  \A v \in 1..Len(vs) :
                IF vs[v].list = <<>>
                THEN \A i \in 1..Len(lines) : ~Mentions(lines[i], vs[v].section)
                ELSE ListedIn(lines, vs[v].section)
                        = [j \in 1..Len(vs[v].list) |-> FirstField(vs[v].list[j])]

\* a container rendered whose DNS records were appended out of key order and whose
\* certificate list is empty
C18_Witness ==
    /\ run[1].done /\ run[1].kind = "Render"
    /\ run[1].tc.DNSQuery = <<RecordB, RecordA>>
    /\ run[1].tc.X509Cert = <<>>
    /\ run[1].tc.HTTPResponse # <<>>
    /\ Len(run[1].tc.PrometheusHttp) = 2

----------------------------------------------------------------------------
(* Claims about the metrics builder, checked under SpecProm *)

\* the runs of the metrics builder that returned bytes
PromRuns == {sl \in Slots : run[sl].done /\ run[sl].kind = "Prom" /\ run[sl].err = ""}

\* the record a run has appended
Appended(sl) == run[sl].tc.PrometheusHttp[Len(run[sl].tc.PrometheusHttp)]

\* a map of a BaseConfig over the defaults of the Object: for a key of both the
\* BaseConfig's value
Over(own, defaults) ==
    [k \in DOMAIN own \cup DOMAIN defaults |-> IF k \in DOMAIN own THEN own[k] ELSE defaults[k]]

\* the items of a BaseConfig in the order of the sub-builders
ItemsOf(c) == c.Qualities \o c.Availability \o c.Metrics

RECURSIVE EntriesInOrder(_, _)
\* for the BaseConfigs named by keys in turn, one [Name, Tags, Vars] per item, with
\* the labels of the BaseConfig as they are and its Vars over those of the Object
EntriesInOrder(s, keys) ==
    IF keys = <<>> THEN <<>>
    ELSE LET c == s.Configs[Head(keys)]
         IN  [i \in 1..Len(ItemsOf(c)) |->
                [Name |-> ItemsOf(c)[i], Tags |-> c.Labels, Vars |-> Over(c.Vars, s.Vars)]]
             \o EntriesInOrder(s, Tail(keys))

\* C19: the variables the metrics builder uses for a BaseConfig are the BaseConfig's
\* Vars over the Object's Vars: for a key present in both the BaseConfig's value.
C19_BaseConfigVarsPrecedence ==
    \A sl \in PromRuns :
        LET want == EntriesInOrder(targets, SortedKeys(targets.Configs)) IN
        /\ Len(Appended(sl).Metric) = Len(want)
        /\ \A i \in 1..Len(want) : Appended(sl).Metric[i].Vars = want[i].Vars

\* C20: a successful call appends exactly one PrometheusHttp record whatever the
\* number of BaseConfigs; its entries are those of the BaseConfigs taken in
\* ascending order of their names, each with the labels of its BaseConfig as they
\* are, and its files are listed in ascending order of their names.
C20_OneRecordPerObject ==
    \A sl \in PromRuns :
        LET want == EntriesInOrder(targets, SortedKeys(targets.Configs))
            rec == Appended(sl)
        IN  /\ Len(run[sl].tc.PrometheusHttp) = Len(run[sl].before.PrometheusHttp) + 1
            /\ Len(rec.Metric) = Len(want)
            /\ \A i \in 1..Len(want) :
                    rec.Metric[i].Name = want[i].Name /\ rec.Metric[i].Tags = want[i].Tags
            /\ [i \in 1..Len(rec.File) |-> rec.File[i].Name] = SortedKeys(targets.Files)

\* a run on an Object with two files and two BaseConfigs that both yield entries,
\* with the names of the BaseConfigs ranged over in descending order
C20_Witness ==
    \E sl \in PromRuns :
        /\ ~run[sl].presorted
        /\ DOMAIN targets.Configs = {cfg1, cfg2} /\ DOMAIN targets.Files = {file1, file2}
        /\ targets.Configs[cfg1] # targets.Configs[cfg2]
        /\ \A k \in {cfg1, cfg2} : ItemsOf(targets.Configs[k]) # <<>>
        /\ Len(Appended(sl).Metric) = 3

----------------------------------------------------------------------------
(* Further claims about the Signal dispatch, checked under SpecSignal *)

\* C21: option-cast error. A Signal dispatch whose options value is not a
\* discovery.SignalOptions ends with the error "no options": no service is
\* processed, no file is changed, and the sink's options, its URL, user and
\* password among them, are as before.
C21_OptionCastError ==
    [][(last'.dname = "Signal" /\ last'.so.type # "SignalOptions") =>
            /\ last'.err = "no options"
            /\ last'.results = <<>>
            /\ fs' = fs
            /\ options' = options]_vars

\* a dispatch with a foreign options value over a service that yields a metric
\* and whose file does not exist, on a sink whose URL is not set
C21_Witness ==
    /\ last.dname = "Signal" /\ last.so = OtherOptions
    /\ last.err = "no options"
    /\ svc1 \in DOMAIN last.sm /\ last.sm[svc1] = ObjectA
    /\ fs[PathA] = Absent
    /\ options.Signal.URL = <<>>

----------------------------------------------------------------------------
(* Claims about a container used for several calls, checked under SpecAppend *)

\* the names of the record lists of a container
ListNames == {"PrometheusHttp", "DNSQuery", "HTTPResponse", "NetResponse", "X509Cert"}

\* C22: the container is append-only. Each successful call leaves in every record
\* list the records that were there, in their order, followed by the records the
\* call produces on a container of its own, and returns the rendering of them all;
\* so after n calls each list is the concatenation, in call order, of what the
\* calls produced.
C22_AppendOnly ==
    [][(run'[1].done /\ run'[1] # run[1]) =>
            LET alone == BuilderOf(run'[1].kind, NewConfig, run'[1].input).tc IN
            /\ run'[1].err = ""
            /\ \A l \in ListNames : run'[1].tc[l] = Container[l] \o alone[l]
            /\ run'[1].bytes = Encode(run'[1].tc)]_vars

\* the same DNS result set built twice on a container that held a record of the
\* metrics builder: each of its two targets is there twice
C22_Witness ==
    /\ run[1].done /\ run[1].n = 3 /\ run[1].kind = "DNS"
    /\ DOMAIN run[1].input = {ka, kb}
    /\ Len(run[1].tc.PrometheusHttp) = 1
    /\ IdsOf(run[1].tc.DNSQuery) = <<ka, kb, ka, kb>>

----------------------------------------------------------------------------
(* A failed call of the metrics builder, checked under SpecProm *)

\* the runs of the metrics builder that returned an error
FailedRuns == {sl \in Slots : run[sl].done /\ run[sl].kind = "Prom" /\ run[sl].err # ""}

\* C23: when GenerateInputPrometheusHttpBytes fails because no metric was built,
\* the container is unchanged: the record under construction is not appended and
\* every record list is after the call what it was before it. The call fails on
\* exactly the services none of whose BaseConfigs has an item.
C23_FailedCallLeavesContainer ==
    /\ \A sl \in FailedRuns :
        /\ run[sl].err = "Metrics are not found."
        /\ run[sl].bytes = Nil
        /\ \A l \in ListNames : run[sl].tc[l] = run[sl].before[l]
    /\ \A sl \in Slots : (run[sl].done /\ run[sl].kind = "Prom") =>
        (sl \in FailedRuns <=> \A k \in DOMAIN targets.Configs : ItemsOf(targets.Configs[k]) = <<>>)

\* a failed call on a container that held a record, for a service with files and
\* with BaseConfigs, none of which has an item
C23_Witness ==
    \E sl \in FailedRuns :
        /\ Len(run[sl].before.PrometheusHttp) = 1
        /\ DOMAIN targets.Files # {}
        /\ DOMAIN targets.Configs = {cfg1, cfg2}
        /\ run[sl].tc.PrometheusHttp = <<PromOf(PathB)>>

----------------------------------------------------------------------------
(* The order of the services in a Signal dispatch, checked under SpecShared *)

\* C24: after a Signal dispatch the content of every output path is determined by
\* the result set alone: whatever the order in which the services are visited, the
\* files are those the dispatch leaves when it visits them in any other order,
\* also when two services' Vars expand the template to the same path.
C24_OrderIndependent ==
    [][last'.dname = "Signal" =>
            \A order \in Orders(DOMAIN last'.sm), desc \in BOOLEAN :
                processSignal(fs, options, last'.sm, last'.so, order, desc).fs = fs']_vars

====
